---- MODULE Spec2Model ----
(***************************************************************************)
(* Visitor Intelligence Console: the SQLite server (express app with an    *)
(* in-memory session registry and a bounded visits table).                 *)
(*                                                                         *)
(* Strings are sequences of one-character strings; a value that JavaScript *)
(* may leave null/undefined is a sequence of length 0 (absent) or 1.       *)
(* Time is Date.now() in scaled units.  Node runs each handler to          *)
(* completion between suspension points (await), so one action is one      *)
(* synchronous stretch of a handler.                                       *)
(***************************************************************************)
EXTENDS Integers, Sequences, FiniteSets, TLC

(* ------------------------------ bounds -------------------------------- *)
\* Largest clock value explored.
MaxTime == 3
\* Number of session tokens crypto.randomBytes may hand out in one run.
NumTokens == 2
\* Requests counted by the login limiter past its limit in one window.
MaxOverLimit == 1
\* SESSION_MINUTES * 60 * 1000, scaled to clock units.
SESSION_TTL_MS == 1
\* loginLimiter windowMs (15 * 60 * 1000), scaled to clock units.
LOGIN_WINDOW_MS == 2
\* MAX_RECORDS, scaled down from its floor of 100.
MAX_RECORDS == 2
\* /api/track requests started in one run.
MaxIngest == 4
\* /api/track handlers suspended in geolocate at the same time.
MaxInflight == 2
\* /api/track requests started in one run of the geolocation specifications.
MaxLookups == 3
\* /api/track requests started in one run of the console as a whole.
MaxTracked == 1
\* /api/track requests started in one run of the JSON-file server.
MaxFileTracks == 2
\* Async functions the client console starts in one run (trackVisit of each
\* page load, submit handlers, refreshData calls).
MaxSpawned == 4
\* The cap of the client console's visit list (1000), scaled down.
VISITS_CAP == 2

(* ------------------------- program constants --------------------------- *)
LOGIN_LIMIT == 8
MIN_PASSWORD_LENGTH == 12
PASSWORD_MAX == 256
DEFAULT_LIMIT == 200
MAX_LIMIT == 1000
MIN_PASSPHRASE_LENGTH == 12

VARIABLES
    now,         \* Date.now()
    sessions,    \* the sessions Map: token -> expiresAt
    issued,      \* how many tokens randomBytes has produced
    loginHits,   \* loginLimiter store: hits of the client in the current window
    loginReset,  \* loginLimiter store: when the client's window ends
    geolookup,   \* GEOLOOKUP, fixed at startup
    config,      \* SESSION_MINUTES and MAX_RECORDS as computed at startup, with
                 \* the environment values they were computed from
    visits,      \* rows of the visits table
    inflight,    \* /api/track handlers suspended inside geolocate
    started,     \* how many /api/track handlers have started (ids handed out)
    acked,       \* history: the records acknowledged with 201, in order, as built
    touched,     \* history: when each session was issued or last renewed
    last,        \* history: the last request answered and its response
    file,        \* JSON-file server: the array stored in data/visitors.json
    handlers,    \* JSON-file server: /api/track handlers suspended at an await
    fileStarted, \* JSON-file server: how many /api/track handlers have started
    fileAcked,   \* history, JSON-file server: the records the file held at
                 \* startup, then the records acknowledged with 201
    isUnlocked,        \* client console: let isUnlocked
    currentPassphrase, \* client console: let currentPassphrase (<<>>: null)
    passphraseHash,    \* client console: localStorage[PASSPHRASE_HASH_KEY]
    analyticsData,     \* client console: localStorage[STORAGE_KEY] (encrypted)
    visitQueue,        \* client console: sessionStorage["visit_queue"]
    tbody,             \* client console: the rows of #tbl tbody
    tableLocked,       \* client console: tableShell has the class "locked"
    tasks,             \* client console: async functions suspended at an await
    spawned            \* client console: how many async functions were started

vars == <<now, sessions, issued, loginHits, loginReset, geolookup, config, visits,
          inflight, started, acked, touched, last,
          file, handlers, fileStarted, fileAcked,
          isUnlocked, currentPassphrase, passphraseHash, analyticsData, visitQueue,
          tbody, tableLocked, tasks, spawned>>

configVars == <<geolookup, config>>
fileVars == <<file, handlers, fileStarted, fileAcked>>
pageVars == <<isUnlocked, currentPassphrase, tbody, tableLocked>>
storageVars == <<passphraseHash, analyticsData, visitQueue>>
clientVars == <<pageVars, storageVars, tasks, spawned>>

sessionVars == <<sessions, issued, touched>>
limiterVars == <<loginHits, loginReset>>
storeVars == <<visits, inflight, started, acked>>

(* ------------------------------ strings -------------------------------- *)
SP == " "

Rep(c, n) == [i \in 1..n |-> c]

Min(a, b) == IF a < b THEN a ELSE b

\* String.prototype.trim
RECURSIVE TrimStart(_)
TrimStart(s) ==
    IF s # <<>> /\ Head(s) = SP THEN TrimStart(Tail(s)) ELSE s

RECURSIVE TrimEnd(_)
TrimEnd(s) ==
    IF s # <<>> /\ s[Len(s)] = SP THEN TrimEnd(SubSeq(s, 1, Len(s) - 1)) ELSE s

Trim(s) == TrimEnd(TrimStart(s))

\* String.prototype.split(" "): the segments between single spaces.
RECURSIVE Split(_)
Split(s) ==
    IF s = <<>> THEN << <<>> >>
    ELSE LET rest == Split(Tail(s)) IN
         IF Head(s) = SP THEN << <<>> >> \o rest
         ELSE << <<Head(s)>> \o Head(rest) >> \o Tail(rest)

\* A request value: its JavaScript type and, for a string, its characters.
Str(s) == [type |-> "string", chars |-> s]
Undefined == [type |-> "undefined", chars |-> <<>>]
NotAString == [type |-> "number", chars |-> <<>>]

\* sanitizeString: null (<<>>) unless a string that is non-empty after trim.
sanitizeString(value, max) ==
    IF value.type # "string" THEN <<>>
    ELSE LET trimmed == Trim(value.chars) IN
         IF trimmed = <<>> THEN <<>>
         ELSE SubSeq(trimmed, 1, Min(Len(trimmed), max))

(* ---------------------------- credential ------------------------------- *)
\* The passphrase ADMIN_PASSWORD_SECRET was derived from.
AdminPassphrase == Rep("p", 12)

\* crypto.scryptSync with the configured salt and parameters, collision free.
scryptSync(candidate) == <<"scrypt">> \o candidate

storedHash == scryptSync(AdminPassphrase)

\* Faulty verifyPassword: only the type is checked before the derivation.
verifyPassword_NoLengthFloor(candidate) ==
    IF candidate.type # "string"
    THEN [ok |-> FALSE, kdf |-> FALSE]
    ELSE [ok |-> scryptSync(candidate.chars) = storedHash, kdf |-> TRUE]

\* verifyPassword: [ok, kdf] where kdf says whether scryptSync was invoked.
verifyPassword(candidate) ==
    IF candidate.type # "string" \/ Len(candidate.chars) < MIN_PASSWORD_LENGTH
    THEN [ok |-> FALSE, kdf |-> FALSE]
    ELSE [ok |-> scryptSync(candidate.chars) = storedHash, kdf |-> TRUE]

(* ------------------------------ sessions ------------------------------- *)
\* Values crypto.randomBytes(48).toString("base64url") returns, in order.
TokenPool == <<"tokA", "tokB", "tokC", "tokD">>

Tokens == {TokenPool[i] : i \in 1..NumTokens}

\* Map.prototype.delete / set on the sessions map.
MapDelete(m, k) == [x \in (DOMAIN m) \ {k} |-> m[x]]

MapSet(m, k, v) == [x \in (DOMAIN m) \cup {k} |-> IF x = k THEN v ELSE m[x]]

\* Faulty authenticate: the expiry is not compared with the clock.
authenticate_IgnoresExpiry(header, s, t1, t2) ==
    LET parts == Split(header)
        token == IF Len(parts) > 1 THEN parts[2] ELSE <<>>
    IN  IF header = <<>> \/ parts[1] # <<"Bearer">> \/ Len(token) # 1
           \/ token[1] \notin DOMAIN s
        THEN [token |-> <<>>, sessions |-> s, read |-> 0]
        ELSE [token |-> token, read |-> s[token[1]],
              sessions |-> MapSet(s, token[1], t2 + SESSION_TTL_MS)]

\* Faulty authenticate: an expired entry is refused but left in the map.
authenticate_KeepsExpired(header, s, t1, t2) ==
    LET parts == Split(header)
        token == IF Len(parts) > 1 THEN parts[2] ELSE <<>>
    IN  IF header = <<>> \/ parts[1] # <<"Bearer">> \/ Len(token) # 1
           \/ token[1] \notin DOMAIN s
        THEN [token |-> <<>>, sessions |-> s, read |-> 0]
        ELSE IF s[token[1]] < t1
        THEN [token |-> <<>>, sessions |-> s, read |-> s[token[1]]]
        ELSE [token |-> token, read |-> s[token[1]],
              sessions |-> MapSet(s, token[1], t2 + SESSION_TTL_MS)]

\* Faulty authenticate: a live token is accepted without renewing its expiry.
authenticate_NoRenew(header, s, t1, t2) ==
    LET parts == Split(header)
        token == IF Len(parts) > 1 THEN parts[2] ELSE <<>>
    IN  IF header = <<>> \/ parts[1] # <<"Bearer">> \/ Len(token) # 1
           \/ token[1] \notin DOMAIN s
        THEN [token |-> <<>>, sessions |-> s, read |-> 0]
        ELSE IF s[token[1]] < t1
        THEN [token |-> <<>>, sessions |-> MapDelete(s, token[1]), read |-> s[token[1]]]
        ELSE [token |-> token, read |-> s[token[1]], sessions |-> s]

\* Faulty authenticate: a token with no entry is taken for a live one.
authenticate_RenewsUnknown(header, s, t1, t2) ==
    LET parts == Split(header)
        token == IF Len(parts) > 1 THEN parts[2] ELSE <<>>
    IN  IF header = <<>> \/ parts[1] # <<"Bearer">> \/ Len(token) # 1
        THEN [token |-> <<>>, sessions |-> s, read |-> 0]
        ELSE IF token[1] \in DOMAIN s /\ s[token[1]] < t1
        THEN [token |-> <<>>, sessions |-> MapDelete(s, token[1]), read |-> s[token[1]]]
        ELSE [token |-> token, read |-> 0,
              sessions |-> MapSet(s, token[1], t2 + SESSION_TTL_MS)]

\* authenticate(req): [token, sessions, read], token <<>> for null and read the
\* expiresAt it got from the map (0: none).  The expiry is tested against the
\* first Date.now() (t1) and renewed from the second (t2).
authenticate(header, s, t1, t2) ==
    IF header = <<>> THEN [token |-> <<>>, sessions |-> s, read |-> 0]
    ELSE LET parts == Split(header)
             scheme == parts[1]
             token == IF Len(parts) > 1 THEN parts[2] ELSE <<>>
         IN  IF scheme # <<"Bearer">> \/ token = <<>>
             THEN [token |-> <<>>, sessions |-> s, read |-> 0]
             ELSE LET known == Len(token) = 1 /\ token[1] \in DOMAIN s
                      expiresAt == IF known THEN s[token[1]] ELSE 0
                  IN  IF expiresAt = 0 \/ expiresAt < t1
                      THEN [token |-> <<>>, read |-> expiresAt,
                            sessions |-> IF known THEN MapDelete(s, token[1]) ELSE s]
                      ELSE [token |-> token, read |-> expiresAt,
                            sessions |-> MapSet(s, token[1], t2 + SESSION_TTL_MS)]

\* Faulty issueSession: the expiry returned is not the expiry stored.
issueSession_ReturnsNow(s, n, t) ==
    LET token == TokenPool[n + 1]
    IN  [token |-> token, expiresAt |-> t,
         sessions |-> MapSet(s, token, t + SESSION_TTL_MS)]

\* issueSession: [token, expiresAt, sessions].
issueSession(s, n, t) ==
    LET token == TokenPool[n + 1]
        expiresAt == t + SESSION_TTL_MS
    IN  [token |-> token, expiresAt |-> expiresAt,
         sessions |-> MapSet(s, token, expiresAt)]

\* Faulty reaper: the comparison is the wrong way round.
reap_Inverted(s, t) ==
    LET keep == {k \in DOMAIN s : ~(s[k] > t)} IN [k \in keep |-> s[k]]

\* The setInterval callback: delete every entry with expiresAt < now.
reap(s, t) ==
    LET keep == {k \in DOMAIN s : ~(s[k] < t)} IN [k \in keep |-> s[k]]

(* ---------------------------- rate limiter ----------------------------- *)
\* Faulty limiter: one request too many is passed on.
loginLimiter_OffByOne(hits, reset, t) ==
    LET fresh == reset <= t
        total == (IF fresh THEN 0 ELSE hits) + 1
    IN  [hits |-> total,
         reset |-> IF fresh THEN t + LOGIN_WINDOW_MS ELSE reset,
         pass |-> total <= LOGIN_LIMIT + 1]

\* rateLimit middleware of loginLimiter for one client key: a window that
\* ended is restarted, the hit is counted, and the request is passed on
\* only while the count is at most the limit.
loginLimiter(hits, reset, t) ==
    LET fresh == reset <= t
        total == (IF fresh THEN 0 ELSE hits) + 1
    IN  [hits |-> total,
         reset |-> IF fresh THEN t + LOGIN_WINDOW_MS ELSE reset,
         pass |-> total <= LOGIN_LIMIT]

(* ------------------------------- store --------------------------------- *)
\* Date.prototype.toISOString: fixed-width text, most significant digit first.
toISOString(t) == <<t \div 10, t % 10>>

\* SQLite's BINARY collation on TEXT: a < b.
RECURSIVE TextLess(_, _)
TextLess(a, b) ==
    IF b = <<>> THEN FALSE
    ELSE IF a = <<>> THEN TRUE
    ELSE IF Head(a) # Head(b) THEN Head(a) < Head(b)
    ELSE TextLess(Tail(a), Tail(b))

MaxOf(S) == CHOOSE x \in S : \A y \in S : y <= x

\* insertVisit.run(payload): the new row takes the largest rowid plus one.
insertVisit(rows, payload) ==
    LET rowid == IF rows = {} THEN 1 ELSE MaxOf({r.rowid : r \in rows}) + 1
    IN  rows \cup {[rowid |-> rowid, id |-> payload.id, ts |-> payload.ts,
                    ip |-> payload.ip, geo |-> payload.geo]}

\* Faulty order: ORDER BY rowid ASC, the timestamp ignored.
OlderThan_ByRowid(a, b) == a.rowid < b.rowid

\* ORDER BY ts ASC, rowid ASC
OlderThan(a, b) ==
    TextLess(a.ts, b.ts) \/ (a.ts = b.ts /\ a.rowid < b.rowid)

\* pruneVisits.run(n): delete the first n rows in (ts ASC, rowid ASC) order.
RECURSIVE pruneVisits(_, _)
pruneVisits(rows, n) ==
    IF n <= 0 \/ rows = {} THEN rows
    ELSE LET oldest == CHOOSE r \in rows :
                           \A q \in rows \ {r} : OlderThan(r, q)
         IN  pruneVisits(rows \ {oldest}, n - 1)

\* countVisits.get().total
countVisits(rows) == Cardinality(rows)

\* Faulty prune check: off by one.
pruneIfNeeded_OffByOne(rows) ==
    LET total == countVisits(rows) IN
    IF total <= MAX_RECORDS + 1 THEN rows
    ELSE pruneVisits(rows, total - MAX_RECORDS)

pruneIfNeeded(rows) ==
    LET total == countVisits(rows) IN
    IF total <= MAX_RECORDS THEN rows
    ELSE pruneVisits(rows, total - MAX_RECORDS)

\* selectVisits.all(limit): ORDER BY ts DESC LIMIT ?.  SQL leaves the order
\* of rows with equal ts open, so this is the set of possible results.
selectVisits(rows, limit) ==
    LET k == Min(limit, Cardinality(rows)) IN
    {q \in [1..k -> rows] :
        /\ \A i, j \in 1..k : i < j => q[i] # q[j] /\ ~TextLess(q[i].ts, q[j].ts)
        /\ \A r \in rows : (\A i \in 1..k : q[i] # r) =>
               \A i \in 1..k : ~TextLess(q[i].ts, r.ts)}

(* ------------------------------ parseInt ------------------------------- *)
Digits == <<"0", "1", "2", "3", "4", "5", "6", "7", "8", "9">>

IsDigit(c) == \E d \in 1..10 : Digits[d] = c

DigitVal(c) == (CHOOSE d \in 1..10 : Digits[d] = c) - 1

\* The value of the longest prefix of digits, acc being the value so far.
RECURSIVE DigitPrefix(_, _)
DigitPrefix(s, acc) ==
    IF s = <<>> \/ ~IsDigit(Head(s)) THEN acc
    ELSE DigitPrefix(Tail(s), 10 * acc + DigitVal(Head(s)))

\* Number.parseInt(s, 10): [nan, val].
parseInt(s) ==
    LET t == TrimStart(s)
        neg == t # <<>> /\ Head(t) = "-"
        body == IF t # <<>> /\ (Head(t) = "-" \/ Head(t) = "+") THEN Tail(t) ELSE t
    IN  IF body = <<>> \/ ~IsDigit(Head(body)) THEN [nan |-> TRUE, val |-> 0]
        ELSE [nan |-> FALSE,
              val |-> IF neg THEN 0 - DigitPrefix(body, 0) ELSE DigitPrefix(body, 0)]

\* Faulty limit: the ceiling of 1000 is not applied.
safeLimit_NoCeiling(query) ==
    LET limit == parseInt(IF query = <<>> THEN <<"2", "0", "0">> ELSE query[1])
    IN  IF ~limit.nan /\ limit.val > 0 THEN limit.val ELSE DEFAULT_LIMIT

\* The limit of GET /api/visitors from req.query.limit (<<>> when not sent).
safeLimit(query) ==
    LET limit == parseInt(IF query = <<>> THEN <<"2", "0", "0">> ELSE query[1])
    IN  IF ~limit.nan /\ limit.val > 0 THEN Min(limit.val, MAX_LIMIT) ELSE DEFAULT_LIMIT

(* ---------------------------- configuration --------------------------- *)
\* JavaScript numbers as parseInt returns them: an integer, or NaN.
Num(n) == [nan |-> FALSE, val |-> n]

NaN == [nan |-> TRUE, val |-> 0]

\* Math.max(a, b): NaN when an argument is NaN.
MathMax(a, b) ==
    IF a.nan \/ b.nan THEN NaN
    ELSE IF a.val >= b.val THEN a ELSE b

\* process.env.X ?? fallback: the fallback for a variable that is not set
\* (<<>>), else the value, the empty string included.
OrDefault(value, fallback) == IF value = <<>> THEN fallback ELSE value[1]

\* SESSION_MINUTES and MAX_RECORDS as the module computes them from the
\* environment when it is loaded.
Configure(sessionMinutes, maxRecords) ==
    [envSessionMinutes |-> sessionMinutes,
     envMaxRecords |-> maxRecords,
     SESSION_MINUTES |->
         MathMax(Num(5), parseInt(OrDefault(sessionMinutes, <<"3", "0">>))),
     MAX_RECORDS |->
         MathMax(Num(100), parseInt(OrDefault(maxRecords, <<"5", "0", "0", "0">>)))]

(* ----------------------------- geolocation ----------------------------- *)
StartsWith(s, p) == Len(s) >= Len(p) /\ SubSeq(s, 1, Len(p)) = p

RECURSIVE isPrivateIp(_)
isPrivateIp(ip) ==
    IF ip = <<>> THEN TRUE
    ELSE IF ip = <<":", ":", "1">>
            \/ ip = <<"1", "2", "7", ".", "0", ".", "0", ".", "1">> THEN TRUE
    ELSE IF StartsWith(ip, <<":", ":", "f", "f", "f", "f", ":">>)
         THEN isPrivateIp(SubSeq(ip, 8, Len(ip)))
    ELSE \/ StartsWith(ip, <<"1", "0", ".">>)
         \/ StartsWith(ip, <<"1", "9", "2", ".", "1", "6", "8", ".">>)
         \/ /\ StartsWith(ip, <<"1", "7", "2", ".">>)
            /\ Len(ip) >= 7
            /\ \/ ip[5] = "1" /\ ip[6] \in {"6", "7", "8", "9"}
               \/ ip[5] = "2" /\ IsDigit(ip[6])
               \/ ip[5] = "3" /\ ip[6] \in {"0", "1"}
            /\ ip[7] = "."
         \/ StartsWith(ip, <<"1", "2", "7", ".">>)
         \/ StartsWith(ip, <<"f", "e", "8", "0", ":">>)
         \/ StartsWith(ip, <<"f", "d">>)

\* geolocate returns null before any await: lookup off, no ip, private ip.
geolocateSkips(mode, ip) == mode = "off" \/ ip = <<>> \/ isPrivateIp(ip)

\* The object geolocate builds from the service's reply.
GeoReply == [country_code |-> "NL"]

\* JSON.stringify of an object (the text kept in a TEXT column) and JSON.parse
\* of such a text.
JSONstringify(o) == [json |-> o]

JSONparse(text) == text.json

\* payload.geo as the handler sets it: null, or the geo object as JSON text.
GeoColumn(geo) == IF geo = <<>> THEN <<>> ELSE <<JSONstringify(geo[1])>>

\* Faulty mapping of a row: the geo column is passed on as stored.
VisitorRow_Unparsed(row) ==
    [id |-> row.id, ts |-> row.ts, ip |-> row.ip, geo |-> row.geo]

\* The object GET /api/visitors builds from a row.
VisitorRow(row) ==
    [id |-> row.id, ts |-> row.ts, ip |-> row.ip,
     geo |-> IF row.geo # <<>> THEN <<JSONparse(row.geo[1])>> ELSE <<>>]

(* ------------------------------ requests ------------------------------- *)
Bearer(t) == <<"Bearer", SP, t>>

\* Authorization headers sent by clients (<<>>: no header).
Headers ==
    {<<>>, <<"Bearer">>, <<"Bearer", SP>>, <<"Bearer", SP, SP, "tokA">>,
     <<"Basic", SP, "tokA">>, <<"bearer", SP, "tokA">>, <<"Bearer", SP, "tokA", "x">>,
     <<"Bearer", SP, "tokA", SP, "x">>}
    \cup {Bearer(t) : t \in Tokens}

\* req.body.password values sent by clients.
Passwords ==
    {Undefined, NotAString, Str(<<>>), Str(<<SP, SP>>),
     Str(Rep("p", 11)), Str(AdminPassphrase),
     Str(<<SP>> \o AdminPassphrase \o <<SP>>), Str(Rep("q", 12))}

\* req.query.limit values sent by clients (<<>>: not sent).
Queries ==
    {<<>>, << <<"1">> >>, << <<"2">> >>, << <<"0">> >>, << <<"-", "1">> >>,
     << <<"x">> >>, << <<"1", "x">> >>, << <<"5", "0", "0", "0">> >>,
     << <<SP, "2">> >>, << <<"+", "1">> >>}

\* Client addresses getClientIp resolves.
ClientIps ==
    {<<"1", "0", ".", "0", ".", "0", ".", "1">>, <<"8", ".", "8", ".", "8", ".", "8">>}

\* The history record: the request (op, auth, password), the response
\* (status, body, token, expiresAt, rows, id) and what the handler did
\* (read: the expiry authenticate read; verified, kdf: verifyPassword and
\* scryptSync were called; query, limit: the limit parameter of a list that
\* was served and the LIMIT selectVisits was run with).
NoResp ==
    [op |-> "none", auth |-> <<>>, password |-> Undefined,
     status |-> 0, body |-> "none", token |-> <<>>, expiresAt |-> 0,
     rows |-> <<>>, id |-> 0, read |-> 0, verified |-> FALSE, kdf |-> FALSE,
     query |-> <<>>, limit |-> 0]

\* The elements of a sequence.
Elems(o) == {o[i] : i \in 1..Len(o)}

\* The history of renewals after a step at time t that issued or accepted
\* the tokens of used and left the sessions map s2: the tokens of used are
\* stamped, the stamps of tokens no longer in the map go.
Touch(h, s2, used, t) ==
    [k \in DOMAIN s2 |-> IF k \in used \/ k \notin DOMAIN h THEN t ELSE h[k]]

(* ------------------------------- actions ------------------------------- *)
\* Rows left in the database file by an earlier run of the server.
StoredRows ==
    {[rowid |-> 1, id |-> 101, ts |-> toISOString(0), ip |-> <<>>, geo |-> <<>>],
     [rowid |-> 2, id |-> 102, ts |-> toISOString(1), ip |-> <<>>,
      geo |-> GeoColumn(<<GeoReply>>)]}

\* The client console in a browser that never opened the page.
NotOpened ==
    /\ isUnlocked = FALSE
    /\ currentPassphrase = <<>>
    /\ passphraseHash = <<>>
    /\ analyticsData = <<>>
    /\ visitQueue = <<>>
    /\ tbody = <<>>
    /\ tableLocked = FALSE
    /\ tasks = {}
    /\ spawned = 0

\* A server right after startup: no session, no limiter entry, nothing in flight.
ServerIdle ==
    /\ now = 1
    /\ sessions = <<>>
    /\ issued = 0
    /\ loginHits = 0
    /\ loginReset = 0
    /\ inflight = {}
    /\ started = 0
    /\ acked = <<>>
    /\ touched = <<>>
    /\ last = NoResp
    /\ handlers = {}
    /\ fileStarted = 0

\* The servers right after startup, no client console open.
Idle == NotOpened /\ ServerIdle

\* The SQLite server right after startup (the JSON file of the other server
\* holds the empty array).
Started ==
    /\ Idle
    /\ file = <<>>
    /\ fileAcked = <<>>

\* Neither SESSION_MINUTES nor MAX_RECORDS is set in the environment.
DefaultConfig == Configure(<<>>, <<>>)

\* Startup on a new data directory.
Init ==
    /\ Started
    /\ config = DefaultConfig
    /\ geolookup \in {"ipapi", "off"}
    /\ visits = {}

\* Startup on a data directory that may hold rows of an earlier run.
InitSession ==
    /\ Started
    /\ config = DefaultConfig
    /\ geolookup = "ipapi"
    /\ visits \in {{}, StoredRows}

\* The clock advances.
Tick ==
    /\ now < MaxTime
    /\ now' = now + 1
    /\ UNCHANGED <<sessionVars, limiterVars, configVars, fileVars, clientVars, storeVars, last>>

\* POST /api/login
Login(pw) ==
    LET rl == loginLimiter(loginHits, loginReset, now)
        password == sanitizeString(IF pw.type = "undefined" THEN Str(<<>>) ELSE pw,
                                   PASSWORD_MAX)
        v == verifyPassword(Str(password))
        session == issueSession(sessions, issued, now)
    IN  /\ rl.hits <= LOGIN_LIMIT + MaxOverLimit
        /\ loginHits' = rl.hits
        /\ loginReset' = rl.reset
        /\ IF ~rl.pass
           THEN /\ last' = [NoResp EXCEPT !.op = "login", !.password = pw,
                                         !.status = 429, !.body = "error"]
                /\ UNCHANGED sessionVars
           ELSE IF password = <<>>
           THEN /\ last' = [NoResp EXCEPT !.op = "login", !.password = pw,
                                         !.status = 400, !.body = "error"]
                /\ UNCHANGED sessionVars
           ELSE IF ~v.ok
           THEN /\ last' = [NoResp EXCEPT !.op = "login", !.password = pw,
                                         !.status = 401, !.body = "error",
                                         !.verified = TRUE, !.kdf = v.kdf]
                /\ UNCHANGED sessionVars
           ELSE /\ issued < NumTokens
                /\ sessions' = session.sessions
                /\ issued' = issued + 1
                /\ touched' = Touch(touched, sessions', {session.token}, now)
                /\ last' = [NoResp EXCEPT !.op = "login", !.password = pw,
                                         !.status = 200, !.body = "session",
                                         !.token = <<session.token>>,
                                         !.expiresAt = session.expiresAt,
                                         !.verified = TRUE, !.kdf = v.kdf]
        /\ UNCHANGED <<now, configVars, fileVars, clientVars, storeVars>>

\* Faulty logout: the accepted token is not deleted.
Logout_KeepsSession(header) ==
    \E t2 \in now..Min(now + 1, MaxTime) :
        LET a == authenticate(header, sessions, now, t2) IN
        /\ a.token = <<>> => t2 = now
        /\ sessions' = a.sessions
        /\ now' = t2
        /\ touched' = Touch(touched, sessions', Elems(a.token), t2)
        /\ last' = [NoResp EXCEPT !.op = "logout", !.auth = header, !.status = 204,
                                  !.token = a.token, !.read = a.read]
        /\ UNCHANGED <<issued, limiterVars, configVars, fileVars, clientVars, storeVars>>

\* POST /api/logout.  t2 is the clock at authenticate's second Date.now(),
\* which is read only when the token is accepted.
Logout(header) ==
    \E t2 \in now..Min(now + 1, MaxTime) :
        LET a == authenticate(header, sessions, now, t2) IN
        /\ a.token = <<>> => t2 = now
        /\ sessions' = IF a.token # <<>> THEN MapDelete(a.sessions, a.token[1])
                       ELSE a.sessions
        /\ now' = t2
        /\ touched' = Touch(touched, sessions', Elems(a.token), t2)
        /\ last' = [NoResp EXCEPT !.op = "logout", !.auth = header, !.status = 204,
                                  !.token = a.token, !.read = a.read]
        /\ UNCHANGED <<issued, limiterVars, configVars, fileVars, clientVars, storeVars>>

\* GET /api/visitors
GetVisitors(header, query) ==
    \E t2 \in now..Min(now + 1, MaxTime) :
        LET a == authenticate(header, sessions, now, t2) IN
        /\ a.token = <<>> => t2 = now
        /\ sessions' = a.sessions
        /\ now' = t2
        /\ touched' = Touch(touched, sessions', Elems(a.token), t2)
        /\ IF a.token = <<>>
           THEN /\ last' = [NoResp EXCEPT !.op = "visitors", !.auth = header,
                                         !.status = 401, !.body = "error",
                                         !.read = a.read]
           ELSE /\ \E rows \in selectVisits(visits, safeLimit(query)) :
                       last' = [NoResp EXCEPT !.op = "visitors", !.auth = header,
                                             !.status = 200, !.body = "rows",
                                             !.rows = [i \in 1..Len(rows) |->
                                                          VisitorRow(rows[i])],
                                             !.token = a.token,
                                             !.read = a.read,
                                             !.query = query,
                                             !.limit = safeLimit(query)]
        /\ UNCHANGED <<issued, limiterVars, configVars, fileVars, clientVars, storeVars>>

\* The session reaper's timer fires.
Reaper ==
    /\ sessions' = reap(sessions, now)
    /\ touched' = Touch(touched, sessions', {}, now)
    /\ UNCHANGED <<now, issued, limiterVars, configVars, fileVars, clientVars, storeVars, last>>

\* Faulty tail: the prune check runs before the insert.
Finish_PruneFirst(payload, geo) ==
    /\ visits' = insertVisit(pruneIfNeeded(visits),
                              [payload EXCEPT !.geo = GeoColumn(geo)])
    /\ acked' = Append(acked, [payload EXCEPT !.geo = geo])
    /\ last' = [NoResp EXCEPT !.op = "track", !.status = 201, !.body = "id",
                              !.id = payload.id]

\* The tail of the /api/track handler: insert, prune check, 201.
Finish(payload, geo) ==
    /\ visits' = pruneIfNeeded(insertVisit(visits,
                                            [payload EXCEPT !.geo = GeoColumn(geo)]))
    /\ acked' = Append(acked, [payload EXCEPT !.geo = geo])
    /\ last' = [NoResp EXCEPT !.op = "track", !.status = 201, !.body = "id",
                              !.id = payload.id]

\* POST /api/track up to the first suspension inside geolocate, or to the
\* end when geolocate returns without a lookup.
TrackStart(ip) ==
    LET payload == [id |-> started + 1, ts |-> toISOString(now), ip |-> ip, geo |-> <<>>]
    IN  /\ started < MaxIngest
        /\ started' = started + 1
        /\ IF geolocateSkips(geolookup, ip)
           THEN /\ Finish(payload, <<>>)
                /\ UNCHANGED inflight
           ELSE /\ Cardinality(inflight) < MaxInflight
                /\ inflight' = inflight \cup {[payload |-> payload, pc |-> "fetch"]}
                /\ UNCHANGED <<visits, acked, last>>
        /\ UNCHANGED <<now, sessionVars, limiterVars, configVars, fileVars, clientVars>>

\* Faulty geolocate: no try/catch, a failed lookup reaches the handler's catch.
FetchSettles_Surfaces(r, outcome) ==
    /\ r \in inflight
    /\ r.pc = "fetch"
    /\ IF outcome = "ok"
       THEN /\ inflight' = (inflight \ {r}) \cup {[r EXCEPT !.pc = "json"]}
            /\ UNCHANGED <<visits, acked, last>>
       ELSE /\ inflight' = inflight \ {r}
            /\ last' = [NoResp EXCEPT !.op = "track", !.status = 500, !.body = "error"]
            /\ UNCHANGED <<visits, acked>>
    /\ UNCHANGED <<now, sessionVars, limiterVars, configVars, fileVars, clientVars, started>>

\* await fetch(...) settles: a reply ("ok", "notok"), or a rejection (network
\* error, or the abort of the 3 s timer).
FetchSettles(r, outcome) ==
    /\ r \in inflight
    /\ r.pc = "fetch"
    /\ IF outcome = "ok"
       THEN /\ inflight' = (inflight \ {r}) \cup {[r EXCEPT !.pc = "json"]}
            /\ UNCHANGED <<visits, acked, last>>
       ELSE /\ inflight' = inflight \ {r}
            /\ Finish(r.payload, <<>>)
    /\ UNCHANGED <<now, sessionVars, limiterVars, configVars, fileVars, clientVars, started>>

\* await res.json() settles: the parsed body, or a rejection.
JsonSettles(r, outcome) ==
    /\ r \in inflight
    /\ r.pc = "json"
    /\ inflight' = inflight \ {r}
    /\ Finish(r.payload, IF outcome = "ok" THEN <<GeoReply>> ELSE <<>>)
    /\ UNCHANGED <<now, sessionVars, limiterVars, configVars, fileVars, clientVars, started>>

\* Logging in: every kind of password, against the limiter.
NextLogin ==
    \/ Tick
    \/ \E pw \in Passwords : Login(pw)

\* The life of a session: issued by a good login, used, revoked, reaped.
NextSession ==
    \/ Tick
    \/ Login(Str(AdminPassphrase))
    \/ \E h \in Headers : Logout(h)
    \/ \E h \in Headers, q \in {<<>>, << <<"1">> >>} : GetVisitors(h, q)
    \/ Reaper

\* The visitors' side: ingestion into the bounded store.
NextStore ==
    \/ Tick
    \/ \E ip \in ClientIps : TrackStart(ip)
    \/ \E r \in inflight, o \in {"ok", "notok", "error"} : FetchSettles(r, o)
    \/ \E r \in inflight, o \in {"ok", "error"} : JsonSettles(r, o)

SpecLogin == InitSession /\ [][NextLogin]_vars

SpecSession == InitSession /\ [][NextSession]_vars

SpecStore == Init /\ [][NextStore]_vars

\* Sessions expire although the reaper's timer, on its interval, keeps firing.
SpecReaper == InitSession /\ [][NextSession]_vars /\ WF_vars(Reaper)

(* -------------------------- claims: sessions --------------------------- *)
\* The tokens issueSession has handed out so far.
IssuedTokens == {TokenPool[i] : i \in 1..issued}

\* Header h presents token t under the Bearer scheme: "Bearer", one space and
\* the token, up to the end of the header or the next space.
Carries(h, t) ==
    /\ Len(h) >= 3
    /\ SubSeq(h, 1, 3) = Bearer(t)
    /\ Len(h) > 3 => h[4] = SP

\* A step in which GET /api/visitors answers a request with header h.
VisitorsStep(h) ==
    /\ last'.op = "visitors"
    /\ last'.auth = h
    /\ \E q \in Queries : GetVisitors(h, q)

\* A step in which POST /api/logout answers a request with header h.
LogoutStep(h) ==
    /\ last'.op = "logout"
    /\ last'.auth = h
    /\ Logout(h)

\* A step in which POST /api/login answers a request with password pw.
LoginStep(pw) ==
    /\ last'.op = "login"
    /\ last'.password = pw
    /\ Login(pw)

\* No entry of the sessions map is new or has another expiry after the step.
NoExtension ==
    \A u \in DOMAIN sessions' : u \in DOMAIN sessions /\ sessions'[u] = sessions[u]

\* C1: GET /api/visitors answers 200 with stored rows exactly when the
\* request carries, under the Bearer scheme, a token that is in the sessions
\* map and not expired at that moment; every other request (no header,
\* another scheme, an unknown, revoked or expired token) gets 401 with an
\* error body and no rows, which differs from the 200 with a (possibly
\* empty) list of rows.
C1_QueryGate ==
    [][\A h \in Headers :
          VisitorsStep(h) =>
              IF \E t \in DOMAIN sessions : Carries(h, t) /\ sessions[t] >= now
              THEN /\ last'.status = 200
                   /\ last'.body = "rows"
                   /\ Elems(last'.rows) \subseteq {VisitorRow(r) : r \in visits}
              ELSE /\ last'.status = 401
                   /\ last'.body = "error"
                   /\ last'.rows = <<>>]_vars

\* A token that was issued is refused on a store that holds rows.
C1_Witness ==
    /\ last.op = "visitors"
    /\ last.status = 401
    /\ last.auth = Bearer("tokA")
    /\ "tokA" \in IssuedTokens
    /\ visits # {}

\* C4: a token is accepted by authenticate right after issueSession issued
\* it; once more than the TTL has passed since it was issued or last
\* accepted, the next authenticate with it fails and the token is gone from
\* the sessions map afterwards.
C4_IssueThenExpire ==
    [][/\ \A pw \in Passwords :
             LoginStep(pw) /\ last'.status = 200 =>
                 authenticate(Bearer(last'.token[1]), sessions', now', now').token
                     = last'.token
       /\ \A t \in DOMAIN touched :
             now > touched[t] + SESSION_TTL_MS =>
                 /\ VisitorsStep(Bearer(t)) =>
                        last'.status = 401 /\ t \notin DOMAIN sessions'
                 /\ LogoutStep(Bearer(t)) =>
                        last'.token = <<>> /\ t \notin DOMAIN sessions']_vars

\* A request found its token in the map, expired, and the token is gone.
C4_Witness ==
    /\ last.op = "visitors"
    /\ last.status = 401
    /\ last.read > 0
    /\ last.auth = Bearer("tokA")
    /\ "tokA" \notin DOMAIN sessions

\* C5: an authenticate that succeeds at time t sets the token's expiry to
\* exactly t + TTL and changes no other entry; a token used again within
\* the TTL of its last use is accepted, so it stays valid as long as it is
\* used at such intervals; an authenticate that fails extends and creates
\* no expiry.
C5_SlidingRenewal ==
    [][\A h \in Headers :
          /\ VisitorsStep(h) =>
                 IF last'.status = 200
                 THEN /\ sessions'[last'.token[1]] = now' + SESSION_TTL_MS
                      /\ \A u \in DOMAIN sessions' \ {last'.token[1]} :
                             u \in DOMAIN sessions /\ sessions'[u] = sessions[u]
                 ELSE NoExtension
          /\ LogoutStep(h) => NoExtension
          /\ \A t \in DOMAIN touched :
                 /\ Carries(h, t)
                 /\ now <= touched[t] + SESSION_TTL_MS
                 /\ VisitorsStep(h)
                 => last'.status = 200]_vars

\* A request was accepted and pushed the expiry it found further out.
C5_Witness ==
    /\ last.op = "visitors"
    /\ last.status = 200
    /\ last.read > 0
    /\ sessions[last.token[1]] > last.read
    /\ sessions[last.token[1]] = now + SESSION_TTL_MS

\* C6: POST /api/logout always answers 204; whatever the state of the token
\* it presents as a Bearer token (live, expired, unknown, none), the token is
\* not in the sessions map afterwards, every other entry is unchanged, and a
\* token that was issued and is gone from the map never comes back, so no
\* later authenticate with it succeeds.
C6_Logout ==
    [][/\ \A h \in Headers :
             LogoutStep(h) =>
                 /\ last'.status = 204
                 /\ \A t \in Tokens : Carries(h, t) => t \notin DOMAIN sessions'
                 /\ \A u \in DOMAIN sessions :
                        ~Carries(h, u) => u \in DOMAIN sessions' /\ sessions'[u] = sessions[u]
                 /\ DOMAIN sessions' \subseteq DOMAIN sessions
       /\ \A t \in IssuedTokens :
             t \notin DOMAIN sessions => t \notin DOMAIN sessions']_vars

\* A live token was revoked while another session stayed.
C6_Witness ==
    /\ last.op = "logout"
    /\ last.status = 204
    /\ last.token = <<"tokA">>
    /\ "tokA" \notin DOMAIN sessions
    /\ "tokB" \in DOMAIN sessions

\* C7: a run of the reaper deletes exactly the tokens whose expiry has
\* passed; with the reaper's timer firing again and again, a token whose
\* expiry has passed is eventually out of the sessions map, whether or not
\* any request arrives.
C7_Reaper ==
    /\ [][Reaper =>
              /\ DOMAIN sessions' = {t \in DOMAIN sessions : sessions[t] >= now}
              /\ \A t \in DOMAIN sessions' : sessions'[t] = sessions[t]]_vars
    /\ \A t \in Tokens :
          (t \in DOMAIN sessions /\ sessions[t] < now) ~> (t \notin DOMAIN sessions)

\* The only session is gone and no request has been answered since the login.
C7_Witness ==
    /\ last.op = "login"
    /\ last.status = 200
    /\ last.token = <<"tokA">>
    /\ issued = 1
    /\ sessions = <<>>

\* C9: the operations on the sessions map do not interleave: a token enters
\* the map only when issueSession creates it, so a token deleted by logout,
\* by the reaper or on expiry is never put back by an authenticate, and the
\* expiry of a token in the map never decreases.
C9_RegistryAtomic ==
    [][\A t \in Tokens :
          /\ (t \notin DOMAIN sessions /\ t \in DOMAIN sessions') =>
                 /\ t \notin IssuedTokens
                 /\ issued' = issued + 1
                 /\ last'.op = "login"
                 /\ last'.token = <<t>>
          /\ (t \in DOMAIN sessions /\ t \in DOMAIN sessions') =>
                 sessions'[t] >= sessions[t]]_vars

\* A token that was issued and deleted was presented again and stayed out.
C9_Witness ==
    /\ last.op = "visitors"
    /\ last.status = 401
    /\ last.read = 0
    /\ last.auth = Bearer("tokA")
    /\ "tokA" \in IssuedTokens
    /\ "tokA" \notin DOMAIN sessions

\* C10: a login request that finds LOGIN_LIMIT or more requests already
\* counted in the client's open window (the 9th attempt and later) is
\* answered 429, not 401, whatever its password; it runs no password
\* verification and issues no session.  Earlier attempts are not limited.
C10_LoginRateLimit ==
    [][\A pw \in Passwords :
          LoginStep(pw) =>
              IF loginReset > now /\ loginHits >= LOGIN_LIMIT
              THEN /\ last'.status = 429
                   /\ ~last'.verified
                   /\ ~last'.kdf
                   /\ last'.token = <<>>
                   /\ UNCHANGED <<sessions, issued>>
              ELSE last'.status \in {200, 400, 401}]_vars

\* The 9th attempt of a window carried the right password and was limited.
C10_Witness ==
    /\ last.op = "login"
    /\ last.status = 429
    /\ last.password = Str(AdminPassphrase)
    /\ loginHits = LOGIN_LIMIT + 1

(* ---------------------------- claims: store ---------------------------- *)
\* The ids of a set of rows, and of the records acknowledged so far.
IdsOf(rows) == {r.id : r \in rows}

AckedIds == {acked[i].id : i \in 1..Len(acked)}

\* Of the records a[i] and a[j], inserted in this order of index, a[i] is the
\* more recent: the later timestamp, or the later insert at equal timestamps.
MoreRecent(a, i, j) ==
    TextLess(a[j].ts, a[i].ts) \/ (a[i].ts = a[j].ts /\ i > j)

\* The ids of the n most recent records of a.
MostRecent(a, n) ==
    {a[i].id : i \in {i \in 1..Len(a) :
                        Cardinality({j \in 1..Len(a) : MoreRecent(a, j, i)}) < n}}

\* C2: the visits table never holds more than MAX_RECORDS rows, in any
\* state reached by any interleaving of /api/track requests.
C2_Bounded == Cardinality(visits) <= MAX_RECORDS

\* The table is full after more requests than fit, with one still in flight.
C2_Witness ==
    /\ Cardinality(visits) = MAX_RECORDS
    /\ Len(acked) > MAX_RECORDS
    /\ inflight # {}

\* C3: the table always holds min(N, MAX_RECORDS) rows, N being the number
\* of records ingested so far, and they are the MAX_RECORDS most recent of
\* all ingested by timestamp (by insertion at equal timestamps).  As this
\* holds before and after every ingest, its prune deletes nothing while the
\* total is at most MAX_RECORDS and otherwise exactly total - MAX_RECORDS
\* rows, the oldest by timestamp and then by insertion.
C3_Retention ==
    /\ Cardinality(visits) = Min(Len(acked), MAX_RECORDS)
    /\ IdsOf(visits) = MostRecent(acked, MAX_RECORDS)
    /\ \A r \in visits : \E i \in 1..Len(acked) : acked[i].id = r.id /\ acked[i].ts = r.ts

\* More records than fit were ingested, one of them after a record with a
\* later timestamp.
C3_Witness ==
    /\ last.op = "track"
    /\ Len(acked) > MAX_RECORDS
    /\ \E i, j \in 1..Len(acked) : i < j /\ TextLess(acked[j].ts, acked[i].ts)

\* C8: ingests are serialized whatever the arrival of requests: after k
\* acknowledged ingests the table holds min(k, MAX_RECORDS) rows, so every
\* prune check saw the insert before it; every row is an acknowledged
\* record as it was inserted, under its own rowid, and while no more than
\* MAX_RECORDS were acknowledged all of them are in the table.
C8_Serialized ==
    /\ Cardinality(visits) = Min(Len(acked), MAX_RECORDS)
    /\ Len(acked) <= MAX_RECORDS => IdsOf(visits) = AckedIds
    /\ \A r \in visits :
          \E i \in 1..Len(acked) :
              [acked[i] EXCEPT !.geo = GeoColumn(@)]
                  = [id |-> r.id, ts |-> r.ts, ip |-> r.ip, geo |-> r.geo]
    /\ \A r, q \in visits : (r.rowid = q.rowid \/ r.id = q.id) => r = q

\* Two requests overlapped (the later one finished first) on a full table.
C8_Witness ==
    /\ Len(acked) > MAX_RECORDS
    /\ \E i, j \in 1..Len(acked) : i < j /\ acked[i].id > acked[j].id
    /\ inflight # {}

(* ---------------------------- claims: login ---------------------------- *)
\* The login limiter turns the next request of the client away.
LoginLimited == loginReset > now /\ loginHits >= LOGIN_LIMIT

\* The sessions map after the step is the map before it plus the one entry
\* t -> e, t not having been in the map.
OneNewSession(t, e) ==
    /\ t \notin DOMAIN sessions
    /\ DOMAIN sessions' = DOMAIN sessions \cup {t}
    /\ sessions'[t] = e
    /\ \A u \in DOMAIN sessions : sessions'[u] = sessions[u]

\* C11 as stated: POST /api/login answers 200 with a token if and only if
\* the password supplied in the body verifies against the stored credential,
\* and then adds exactly one entry token -> now + TTL whose expiry it
\* returns; a missing or malformed password gives 400, a wrong one 401, both
\* with the sessions map unchanged.
C11_Original ==
    [][\A pw \in Passwords :
          LoginStep(pw) =>
              IF verifyPassword(pw).ok
              THEN /\ last'.status = 200
                   /\ last'.token # <<>>
                   /\ OneNewSession(last'.token[1], now + SESSION_TTL_MS)
                   /\ last'.expiresAt = sessions'[last'.token[1]]
              ELSE /\ last'.status \in {400, 401}
                   /\ pw.type # "string" => last'.status = 400
                   /\ Len(Trim(pw.chars)) >= MIN_PASSWORD_LENGTH => last'.status = 401
                   /\ sessions' = sessions]_vars

\* C11 amended: for a login request the rate limiter lets through, the
\* answer is 200 with a token if and only if the password, trimmed of
\* surrounding whitespace and cut to 256 characters, verifies against the
\* stored credential; then exactly one entry token -> now + TTL is added and
\* the expiresAt returned is the expiry stored.  A password that is missing,
\* not a string or blank gives 400, any other password that does not verify
\* gives 401, and a request the limiter turns away gives 429; in these three
\* cases no token is returned and the sessions map is unchanged.
C11_Login ==
    [][\A pw \in Passwords :
          LoginStep(pw) =>
              LET given == IF pw.type = "string" THEN Trim(pw.chars) ELSE <<>>
                  cut == SubSeq(given, 1, Min(Len(given), PASSWORD_MAX))
              IN  IF LoginLimited
                  THEN last'.status = 429 /\ last'.token = <<>> /\ sessions' = sessions
                  ELSE IF given = <<>>
                  THEN last'.status = 400 /\ last'.token = <<>> /\ sessions' = sessions
                  ELSE IF Len(cut) >= MIN_PASSWORD_LENGTH /\ cut = AdminPassphrase
                  THEN /\ last'.status = 200
                       /\ last'.token # <<>>
                       /\ OneNewSession(last'.token[1], now + SESSION_TTL_MS)
                       /\ last'.expiresAt = sessions'[last'.token[1]]
                  ELSE last'.status = 401 /\ last'.token = <<>> /\ sessions' = sessions]_vars

\* A second session was issued, to a password sent with spaces around it.
C11_Witness ==
    /\ last.op = "login"
    /\ last.status = 200
    /\ last.password = Str(<<SP>> \o AdminPassphrase \o <<SP>>)
    /\ issued = 2
    /\ last.token = <<"tokB">>
    /\ sessions["tokB"] = last.expiresAt
    /\ "tokA" \in DOMAIN sessions

(* ------------------------ geolocation: the lookup ---------------------- *)
\* Client origins in the private ranges: 10/8, 172.16/12, 192.168/16,
\* loopback, IPv6 loopback, unique-local fc00::/7, link-local fe80::/10, and
\* IPv4-mapped forms of these; and the empty origin.
PrivateOrigins ==
    {<<>>,
     <<"1", "0", ".", "0", ".", "0", ".", "1">>,
     <<"1", "7", "2", ".", "1", "6", ".", "0", ".", "1">>,
     <<"1", "7", "2", ".", "3", "1", ".", "9", ".", "9">>,
     <<"1", "9", "2", ".", "1", "6", "8", ".", "1", ".", "5">>,
     <<"1", "2", "7", ".", "0", ".", "0", ".", "1">>,
     <<"1", "2", "7", ".", "8", ".", "8", ".", "8">>,
     <<":", ":", "1">>,
     <<"f", "d", "0", "0", ":", ":", "1">>,
     <<"f", "c", "0", "0", ":", ":", "1">>,
     <<"f", "e", "8", "0", ":", ":", "1">>,
     <<"f", "e", "b", "f", ":", ":", "1">>,
     <<":", ":", "f", "f", "f", "f", ":", "1", "0", ".", "0", ".", "0", ".", "1">>,
     <<":", ":", "f", "f", "f", "f", ":", "1", "2", "7", ".", "0", ".", "0", ".", "1">>}

\* Public client origins.
PublicOrigins ==
    {<<"8", ".", "8", ".", "8", ".", "8">>,
     <<"1", "7", "2", ".", "3", "2", ".", "0", ".", "1">>,
     <<":", ":", "f", "f", "f", "f", ":", "8", ".", "8", ".", "8", ".", "8">>}

\* The origins getClientIp resolves in the geolocation specifications.
Origins == PrivateOrigins \cup PublicOrigins

\* The 3 s timer of geolocate fires while fetch is pending: controller.abort()
\* rejects the fetch.  clearTimeout disarms it once fetch has resolved.
AbortTimer(r) == FetchSettles(r, "timeout")

\* Ingestion with its geolocation lookup, from every kind of origin.
NextOrigins ==
    \/ \E ip \in Origins : started < MaxLookups /\ TrackStart(ip)
    \/ \E r \in inflight, o \in {"ok", "notok", "error"} : FetchSettles(r, o)
    \/ \E r \in inflight : AbortTimer(r)
    \/ \E r \in inflight, o \in {"ok", "error"} : JsonSettles(r, o)

\* Ingestion with its geolocation lookup as time passes.
NextGeo ==
    \/ Tick
    \/ \E ip \in ClientIps : started < MaxLookups /\ TrackStart(ip)
    \/ \E r \in inflight, o \in {"ok", "notok", "error"} : FetchSettles(r, o)
    \/ \E r \in inflight : AbortTimer(r)
    \/ \E r \in inflight, o \in {"ok", "error"} : JsonSettles(r, o)

\* Startup with the lookup on or off, on a new or a used data directory.
InitGeo ==
    /\ Started
    /\ config = DefaultConfig
    /\ geolookup \in {"ipapi", "off"}
    /\ visits \in {{}, StoredRows}

SpecGeo == InitGeo /\ [][NextGeo]_vars

SpecOrigins == InitGeo /\ [][NextOrigins]_vars

\* The timer of every pending fetch fires unless the fetch settles first; the
\* geolocation service owes nothing.
SpecGeoTimer ==
    /\ InitGeo
    /\ [][NextGeo]_vars
    /\ \A i \in 1..MaxLookups :
          WF_vars(\E r \in inflight : r.payload.id = i /\ AbortTimer(r))

(* ------------------------- claims: geolocation ------------------------- *)
\* The lookup of the suspended handler r ends in this step without geo data:
\* a network error, a non-success status, the timeout, or an unreadable body.
LookupFails(r) ==
    \/ \E o \in {"notok", "error"} : FetchSettles(r, o)
    \/ AbortTimer(r)
    \/ JsonSettles(r, "error")

\* C12: a /api/track request whose geolocation lookup ends in a network
\* error, a non-success status or a timeout is still answered 201 with its
\* id, exactly one record is appended for it, and that record has no geo; no
\* error status reaches the caller.
C12_EnrichmentFailure ==
    [][\A r \in inflight :
          LookupFails(r) =>
              /\ last'.op = "track"
              /\ last'.status = 201
              /\ last'.body = "id"
              /\ last'.id = r.payload.id
              /\ acked' = Append(acked, [r.payload EXCEPT !.geo = <<>>])
              /\ r.payload.id \notin IdsOf(visits)
              /\ \A row \in visits' \ visits :
                    row.id = r.payload.id /\ row.ip = r.payload.ip /\ row.geo = <<>>
              /\ Cardinality(visits' \ visits) <= 1
              /\ Cardinality(visits) < MAX_RECORDS => r.payload.id \in IdsOf(visits')]_vars

\* A lookup for a public origin failed and its record is stored without geo,
\* next to a record whose lookup succeeded.
C12_Witness ==
    /\ geolookup = "ipapi"
    /\ last.op = "track"
    /\ last.status = 201
    /\ \E row \in visits :
          row.id = last.id /\ row.ip \in PublicOrigins /\ row.geo = <<>>
    /\ \E row \in visits : row.id # last.id /\ row.id \in AckedIds /\ row.geo # <<>>

\* C13: every /api/track request that was accepted eventually appends its
\* record and is answered, whatever the geolocation service does: the lookup
\* is bounded by its timer both while it waits for the response and while it
\* reads the response body, so no ingestion stays pending forever.
C13_LookupBounded ==
    \A i \in 1..MaxLookups : (started >= i) ~> (i \in AckedIds)

\* A step in which POST /api/track starts handling a request from origin ip.
TrackStep(ip) == started < MaxLookups /\ TrackStart(ip)

\* C14: for a client origin that is empty or lies in a private range (IPv4
\* 10/8, 172.16/12, 192.168/16, loopback; IPv6 loopback, unique-local,
\* link-local; the IPv4-mapped forms) ingestion makes no outbound geolocation
\* call and the record stored has no geo, whatever the geolocation mode; with
\* GEOLOOKUP=off no outbound call is made for any origin.
C14_PrivateSkip ==
    [][\A ip \in Origins :
          TrackStep(ip) /\ (ip \in PrivateOrigins \/ geolookup = "off") =>
              /\ inflight' = inflight
              /\ last'.status = 201
              /\ Len(acked') = Len(acked) + 1
              /\ acked'[Len(acked')].ip = ip
              /\ acked'[Len(acked')].geo = <<>>
              /\ \E row \in visits' : row.id = last'.id /\ row.ip = ip /\ row.geo = <<>>]_vars

(* ------------------------- the operator's reads ------------------------ *)
\* A table filled to MAX_RECORDS by an earlier run, with equal timestamps.
FullRows ==
    {[rowid |-> i, id |-> 200 + i, ts |-> toISOString((i + 1) \div 2), ip |-> <<>>,
      geo |-> <<>>] : i \in 1..MAX_RECORDS}

InitQuery ==
    /\ Started
    /\ config = DefaultConfig
    /\ geolookup = "ipapi"
    /\ visits \in {{}, StoredRows, FullRows}

\* One operator logs in and lists the visits with every kind of limit.
NextQuery ==
    \/ Tick
    \/ issued = 0 /\ Login(Str(AdminPassphrase))
    \/ \E h \in {<<>>, Bearer(TokenPool[1])}, q \in Queries : GetVisitors(h, q)

SpecQuery == InitQuery /\ [][NextQuery]_vars

(* ---------------------------- claims: reads ---------------------------- *)
\* The time an ISO timestamp stands for.
TsTime(ts) == ts[1] * 10 + ts[2]

\* s is a decimal numeral: one or more digits and nothing else.
Numeral(s) == s # <<>> /\ \A i \in 1..Len(s) : IsDigit(s[i])

\* The number of digits s starts with.
LeadingDigits(s) ==
    Cardinality({k \in 1..Len(s) : \A i \in 1..k : IsDigit(s[i])})

\* out is a list of the n most recent records of the table, newest first:
\* n different rows as the handler presents them, no timestamp followed by a
\* later one, and no row left out that is later than a row listed.
MostRecentFirst(out, n) ==
    /\ Len(out) = n
    /\ \A i \in 1..n : \E r \in visits : out[i] = VisitorRow(r)
    /\ \A i, j \in 1..n : i < j => out[i].id # out[j].id /\ TsTime(out[i].ts) >= TsTime(out[j].ts)
    /\ \A r \in visits :
          r.id \notin {out[i].id : i \in 1..n} =>
              \A i \in 1..n : TsTime(r.ts) <= TsTime(out[i].ts)

\* A step in which GET /api/visitors serves a list.
ListStep == last' # last /\ last'.op = "visitors" /\ last'.status = 200

\* The positive integer a limit text stands for, 0 when it is none: a decimal
\* numeral, with or without a plus sign and surrounding whitespace, and
\* nothing else.
StrictLimit(q) ==
    IF q = <<>> THEN 0
    ELSE LET Value(text) ==
                 LET Unsigned(body) ==
                         IF Numeral(body) THEN DigitPrefix(body, 0) ELSE 0
                 IN  IF text # <<>> /\ text[1] = "+" THEN Unsigned(Tail(text))
                     ELSE Unsigned(text)
         IN  Value(Trim(q[1]))

\* The positive integer a limit text starts with, 0 when there is none: after
\* leading whitespace and an optional sign come decimal digits, and whatever
\* follows them is ignored.
LenientLimit(q) ==
    IF q = <<>> THEN 0
    ELSE \* the text without leading whitespace, then without its sign
         LET Value(text) ==
                 LET Unsigned(body) ==
                         IF text # <<>> /\ text[1] = "-" THEN 0
                         ELSE DigitPrefix(SubSeq(body, 1, LeadingDigits(body)), 0)
                 IN  IF text # <<>> /\ text[1] \in {"+", "-"} THEN Unsigned(Tail(text))
                     ELSE Unsigned(text)
         IN  Value(TrimStart(q[1]))

\* The rows of the response are the Min(effectiveLimit, store size) most
\* recent, newest first, effectiveLimit being Min(n, 1000) for the positive
\* limit n and 200 for none (n = 0).
ListsMostRecent(n) ==
    \A effectiveLimit \in {IF n > 0 THEN Min(n, MAX_LIMIT) ELSE DEFAULT_LIMIT} :
        \A size \in {Min(effectiveLimit, Cardinality(visits))} :
            /\ last'.limit = effectiveLimit
            /\ MostRecentFirst(last'.rows, size)

NextConsole ==
    \/ Tick
    \/ \E ip \in ClientIps \cap PublicOrigins : started < MaxTracked /\ TrackStart(ip)
    \/ \E r \in inflight, o \in {"ok", "error"} : FetchSettles(r, o)
    \/ \E r \in inflight : JsonSettles(r, "ok")
    \/ \E pw \in {Str(AdminPassphrase), Str(Rep("q", 12)), Undefined} :
          now < loginReset /\ (issued = 0 \/ ~loginLimiter(loginHits, loginReset, now).pass)
              /\ Login(pw)
    \/ Logout(Bearer(TokenPool[1]))
    \/ \E h \in {<<>>, Bearer(TokenPool[1])} : GetVisitors(h, <<>>)
    \/ Reaper

\* The server some time after startup: the operator has failed all but one of
\* the logins the limiter allows in the window, the last answered 401.
InitConsole ==
    /\ now = 1
    /\ sessions = <<>>
    /\ issued = 0
    /\ loginHits = LOGIN_LIMIT - 1
    /\ loginReset = 1 + LOGIN_WINDOW_MS
    /\ geolookup = "ipapi"
    /\ config = DefaultConfig
    /\ visits \in {{}, StoredRows}
    /\ inflight = {}
    /\ started = 0
    /\ acked = <<>>
    /\ touched = <<>>
    /\ last = [NoResp EXCEPT !.op = "login", !.password = Str(Rep("q", 12)),
                             !.status = 401, !.body = "error",
                             !.verified = TRUE, !.kdf = TRUE]
    /\ file = <<>>
    /\ handlers = {}
    /\ fileStarted = 0
    /\ fileAcked = <<>>
    /\ NotOpened

SpecConsole == InitConsole /\ [][NextConsole]_vars

(* ------------------------ claims: visit records ------------------------ *)
\* A step in which /api/track acknowledges a record with 201.
TrackAcked ==
    /\ Len(acked') = Len(acked) + 1
    /\ last'.op = "track"
    /\ last'.status = 201
    /\ last'.id = acked'[Len(acked')].id

\* The row insertVisit stores for the record rec.
StoredAs(row, rec) ==
    /\ row.id = rec.id
    /\ row.ts = rec.ts
    /\ row.ip = rec.ip
    /\ row.geo = (IF rec.geo = <<>> THEN <<>> ELSE <<JSONstringify(rec.geo[1])>>)

\* C16: a visit record is created exactly once per acknowledged /api/track
\* (one new row under a new id, with the record's values), is never changed
\* afterwards, and is deleted only when an ingest takes the table past
\* MAX_RECORDS; login, logout, GET /api/visitors, the reaper and failed or
\* rate-limited requests leave the table as it is; and a record listed by
\* /api/visitors has the field values it was acknowledged with.
C16_Lifecycle ==
    [][/\ visits' # visits => TrackAcked
       /\ TrackAcked =>
              \A rec \in {acked'[Len(acked')]} :
                  /\ rec.id \notin IdsOf(visits) \cup AckedIds
                  /\ \A row \in visits' \ visits : StoredAs(row, rec)
                  /\ Cardinality(visits' \ visits) <= 1
                  /\ Cardinality(visits) < MAX_RECORDS => Cardinality(visits' \ visits) = 1
       /\ \A r \in visits, q \in visits' : (r.id = q.id \/ r.rowid = q.rowid) => r = q
       /\ visits \ visits' # {} =>
              /\ TrackAcked
              /\ Cardinality(visits) = MAX_RECORDS
              /\ Cardinality(visits') = MAX_RECORDS
       /\ (Reaper \/ (last' # last /\ last'.op \in {"login", "logout", "visitors"})) =>
              visits' = visits
       /\ ListStep =>
              \A i \in 1..Len(last'.rows), k \in 1..Len(acked) :
                  acked[k].id = last'.rows[i].id => last'.rows[i] = acked[k]]_vars

\* A record with geo data was tracked on a full table and is listed as built.
C16_Witness ==
    /\ last.op = "visitors"
    /\ last.status = 200
    /\ Len(acked) > 0
    /\ acked[1].geo = <<GeoReply>>
    /\ \E i \in 1..Len(last.rows) : last.rows[i] = acked[1]
    /\ Cardinality(visits) = MAX_RECORDS
    /\ \E row \in StoredRows : row \notin visits

(* ------------------------- the credential verifier --------------------- *)
\* Candidates handed to verifyPassword: values that are no strings, runs of one
\* character up to two past the length floor, and the passphrase and shorter
\* runs with one character replaced or inserted.
Candidates ==
    {Undefined, NotAString}
    \cup {Str(Rep(c, n)) : c \in {"p", "q", SP}, n \in 0..(MIN_PASSWORD_LENGTH + 2)}
    \cup {Str(Rep("p", i) \o <<c>> \o Rep("p", j)) :
              i \in 0..6, j \in 0..6, c \in {"q", SP}}

\* A call of verifyPassword(candidate).
VerifyCall(candidate) ==
    LET v == verifyPassword(candidate)
    IN  /\ last' = [NoResp EXCEPT !.op = "verify", !.password = candidate,
                                  !.body = IF v.ok THEN "true" ELSE "false",
                                  !.verified = TRUE, !.kdf = v.kdf]
        /\ UNCHANGED <<now, sessionVars, limiterVars, configVars, fileVars, clientVars, storeVars>>

\* verifyPassword is called with every candidate while the server runs.
NextVerify ==
    \/ Tick
    \/ Login(Str(AdminPassphrase))
    \/ \E c \in Candidates : VerifyCall(c)

SpecVerify == InitSession /\ [][NextVerify]_vars

(* ---------------------- claims: credential verifier -------------------- *)
\* A step in which verifyPassword returns.
VerifyStep == last' # last /\ last'.op = "verify"

\* C17: for a candidate that is not a string or is shorter than 12 characters
\* verifyPassword returns false and the key derivation is not invoked; the
\* result depends on the candidate and the stored credential alone (true for
\* the passphrase, false for anything else, in every state), and the call
\* changes no state of the server.
C17_ShortCircuit ==
    [][VerifyStep =>
          \A c \in {last'.password} :
              /\ (c.type # "string" \/ Len(c.chars) < 12) =>
                     last'.body = "false" /\ ~last'.kdf
              /\ last'.body = "true" <=> (c.type = "string" /\ c.chars = AdminPassphrase)
              /\ UNCHANGED <<now, sessions, issued, loginHits, loginReset, geolookup,
                             visits, inflight, started, acked, fileVars, clientVars>>]_vars

\* An 11-character candidate was refused without key derivation while a
\* session was open.
C17_Witness ==
    /\ last.op = "verify"
    /\ last.password = Str(Rep("p", 11))
    /\ last.body = "false"
    /\ ~last.kdf
    /\ sessions # <<>>

(* --------------------------- the configuration ------------------------- *)
\* Values of an environment variable: not set (<<>>), or a text.
EnvValues ==
    {<<>>,
     <<<<"3", "0">>>>,
     <<<<"5">>>>,
     <<<<"4">>>>,
     <<<<"0">>>>,
     <<<<"-", "7">>>>,
     <<<<"a", "b", "c">>>>,
     <<<<>>>>,
     <<<<" ", "1", "0">>>>,
     <<<<"1", "0", "m", "i", "n">>>>,
     <<<<"1", "0", "0">>>>,
     <<<<"9", "9">>>>,
     <<<<"5", "0", "0", "0">>>>}

\* Startup under every environment.
InitConfig ==
    /\ Started
    /\ geolookup = "ipapi"
    /\ visits = {}
    /\ config \in {Configure(a, b) : a \in EnvValues, b \in EnvValues}

\* The configuration is computed once; time passes.
NextConfig == Tick

SpecConfig == InitConfig /\ [][NextConfig]_vars

\* JavaScript arithmetic and comparison: NaN in, NaN (or false) out.
JsAdd(a, b) == IF a.nan \/ b.nan THEN NaN ELSE Num(a.val + b.val)

JsSub(a, b) == IF a.nan \/ b.nan THEN NaN ELSE Num(a.val - b.val)

JsMul(a, b) == IF a.nan \/ b.nan THEN NaN ELSE Num(a.val * b.val)

JsLess(a, b) == ~a.nan /\ ~b.nan /\ a.val < b.val

JsLessEq(a, b) == ~a.nan /\ ~b.nan /\ a.val <= b.val

\* !x for a number x
JsNot(a) == a.nan \/ a.val = 0

\* SESSION_TTL_MS = SESSION_MINUTES * 60 * 1000
SessionTtlMs(c) == JsMul(JsMul(c.SESSION_MINUTES, Num(60)), Num(1000))

\* The expiresAt issueSession stores at time t.
issuedExpiresAt(c, t) == JsAdd(Num(t), SessionTtlMs(c))

\* The test authenticate makes of the expiry it reads at time t.
authenticateAccepts(expiresAt, t) == ~(JsNot(expiresAt) \/ JsLess(expiresAt, Num(t)))

\* pruneIfNeeded on a table of total rows: the number of rows it asks
\* pruneVisits to delete (0: it returns before).
pruneExcess(c, total) ==
    IF JsLessEq(Num(total), c.MAX_RECORDS) THEN Num(0)
    ELSE JsSub(Num(total), c.MAX_RECORDS)

(* ------------------------- claims: configuration ----------------------- *)
\* C18: under every value of the environment options, unparseable ones
\* included, the effective session TTL is at least 5 minutes (30 when the
\* option is not set) and the effective maximum record count is at least 100
\* (5000 when not set); so a session authenticates right after it is issued,
\* and the prune check brings a table back to at most the effective maximum.
C18_ConfigFloors ==
    /\ ~config.SESSION_MINUTES.nan
    /\ config.SESSION_MINUTES.val >= 5
    /\ config.envSessionMinutes = <<>> => config.SESSION_MINUTES.val = 30
    /\ ~config.MAX_RECORDS.nan
    /\ config.MAX_RECORDS.val >= 100
    /\ config.envMaxRecords = <<>> => config.MAX_RECORDS.val = 5000
    /\ authenticateAccepts(issuedExpiresAt(config, now), now)
    /\ \A total \in {1, 100, 101, 5000, 5001} :
          \A excess \in {pruneExcess(config, total)} :
              ~excess.nan /\ total - excess.val <= config.MAX_RECORDS.val

(* ------------------ the JSON-file server (src/server.js) --------------- *)
\* value || fallback for a text: the fallback for a variable that is not
\* set (<<>>) or set to the empty text.
OrElse(value, fallback) ==
    IF value = <<>> \/ value[1] = <<>> THEN fallback ELSE value[1]

\* Math.max(0, parseInt(process.env.MAX_RECORDS || "1000", 10))
fileLimit(env) == MathMax(Num(0), parseInt(OrElse(env, <<"1", "0", "0", "0">>)))

\* arr.slice(0, n)
slice(arr, n) ==
    IF n >= 0 THEN SubSeq(arr, 1, Min(n, Len(arr)))
    ELSE SubSeq(arr, 1, IF Len(arr) + n > 0 THEN Len(arr) + n ELSE 0)

\* limit ? arr.slice(0, limit) : arr
trimmed(arr, limit) == IF JsNot(limit) THEN arr ELSE slice(arr, limit.val)

\* The payload a handler builds after geolocate (nanoid gives a new id per
\* request: the request's number).
payloadOf(h) == [id |-> h.n, ts |-> h.ts, ip |-> h.ip, geo |-> h.geo]

\* A handler moves on to another await.
Suspend(h, h2) == handlers' = (handlers \ {h}) \cup {h2}

\* POST /api/track up to its first suspension: inside geolocate's fetch, or
\* inside readStore when lookups are off.
fileTrack(ip) ==
    /\ fileStarted < MaxFileTracks
    /\ fileStarted' = fileStarted + 1
    /\ handlers' = handlers \cup
           {[n |-> fileStarted + 1, ts |-> toISOString(now), ip |-> ip, geo |-> <<>>,
             data |-> <<>>, pc |-> IF geolookup = "off" THEN "readFile" ELSE "fetch"]}
    /\ UNCHANGED <<now, sessionVars, limiterVars, configVars, storeVars, clientVars, last,
                   file, fileAcked>>

\* await fetch(...) settles in geolocate: a reply ("ok", "notok") or a
\* rejection; without a usable reply the handler goes on to readStore.
fileFetchSettles(h, outcome) ==
    /\ h \in handlers
    /\ h.pc = "fetch"
    /\ Suspend(h, [h EXCEPT !.pc = IF outcome = "ok" THEN "json" ELSE "readFile"])
    /\ UNCHANGED <<now, sessionVars, limiterVars, configVars, storeVars, clientVars, last,
                   file, fileStarted, fileAcked>>

\* await res.json() settles in geolocate; the handler goes on to readStore.
fileJsonSettles(h, outcome) ==
    /\ h \in handlers
    /\ h.pc = "json"
    /\ Suspend(h, [h EXCEPT !.pc = "readFile",
                            !.geo = IF outcome = "ok" THEN <<GeoReply>> ELSE <<>>])
    /\ UNCHANGED <<now, sessionVars, limiterVars, configVars, storeVars, clientVars, last,
                   file, fileStarted, fileAcked>>

\* await readStore() settles in /api/track: the array the file holds, to
\* which the handler prepends its payload and which it cuts and hands to
\* writeStore; or a rejection (the read or JSON.parse failed), answered 500.
readStoreSettles(h, outcome) ==
    /\ h \in handlers
    /\ h.pc = "readFile"
    /\ IF outcome = "ok"
       THEN /\ Suspend(h, [h EXCEPT !.pc = "writeFile",
                                    !.data = trimmed(<<payloadOf(h)>> \o file,
                                                     fileLimit(config.envMaxRecords))])
            /\ UNCHANGED last
       ELSE /\ handlers' = handlers \ {h}
            /\ last' = [NoResp EXCEPT !.op = "file-track", !.status = 500,
                                      !.body = "error"]
    /\ UNCHANGED <<now, sessionVars, limiterVars, configVars, storeVars, clientVars,
                   file, fileStarted, fileAcked>>

\* await writeStore(trimmed) settles: the file holds the handler's array and
\* the request is answered 201; or a rejection, answered 500.
writeStoreSettles(h, outcome) ==
    /\ h \in handlers
    /\ h.pc = "writeFile"
    /\ handlers' = handlers \ {h}
    /\ IF outcome = "ok"
       THEN /\ file' = h.data
            /\ fileAcked' = Append(fileAcked, payloadOf(h))
            /\ last' = [NoResp EXCEPT !.op = "file-track", !.status = 201,
                                      !.body = "id", !.id = h.n]
       ELSE /\ last' = [NoResp EXCEPT !.op = "file-track", !.status = 500,
                                      !.body = "error"]
            /\ UNCHANGED <<file, fileAcked>>
    /\ UNCHANGED <<now, sessionVars, limiterVars, configVars, storeVars, clientVars, fileStarted>>

\* GET /api/visitors of the JSON-file server, answered when its readStore
\* settles; nothing of the request but the limit is looked at.
fileVisitors(header, query, outcome) ==
    /\ IF outcome = "ok"
       THEN \E limit \in {parseInt(OrDefault(query, <<"2", "0", "0">>))} :
                last' = [NoResp EXCEPT !.op = "file-visitors", !.auth = header,
                                      !.status = 200, !.body = "rows",
                                      !.rows = slice(file, IF limit.nan THEN 200
                                                           ELSE limit.val),
                                      !.query = query]
       ELSE last' = [NoResp EXCEPT !.op = "file-visitors", !.auth = header,
                                   !.status = 500, !.body = "error"]
    /\ UNCHANGED <<now, sessionVars, limiterVars, configVars, storeVars, fileVars, clientVars>>

\* The array left in data/visitors.json by an earlier run, newest first.
StoredFile ==
    <<[id |-> 101, ts |-> toISOString(0), ip |-> <<>>, geo |-> <<>>]>>

\* MAX_RECORDS in the environment of the JSON-file server.
FileCaps == {<<>>, << <<"2">> >>, << <<"a", "b", "c">> >>}

\* req.query.limit values sent to the JSON-file server (<<>>: not sent).
FileQueries == {<<>>, << <<"1">> >>, << <<"-", "1">> >>}

\* Startup of the JSON-file server: the file is new or kept from an earlier run.
InitFile ==
    /\ Idle
    /\ geolookup \in {"ipapi", "off"}
    /\ config \in {Configure(<<>>, cap) : cap \in FileCaps}
    /\ visits = {}
    /\ file \in {<<>>, StoredFile}
    /\ fileAcked = file

NextFile ==
    \/ Tick
    \/ \E ip \in ClientIps \cap PublicOrigins : fileTrack(ip)
    \/ \E h \in handlers, outcome \in {"ok", "notok", "error"} : fileFetchSettles(h, outcome)
    \/ \E h \in handlers, outcome \in {"ok", "error"} : fileJsonSettles(h, outcome)
    \/ \E h \in handlers, outcome \in {"ok", "error"} : readStoreSettles(h, outcome)
    \/ \E h \in handlers, outcome \in {"ok", "error"} : writeStoreSettles(h, outcome)
    \/ \E header \in {<<>>, Bearer(TokenPool[1])}, query \in FileQueries,
          outcome \in {"ok", "error"} : fileVisitors(header, query, outcome)

SpecFile == InitFile /\ [][NextFile]_vars

(* ----------------------- claims: JSON-file server ---------------------- *)
\* The header presents a token of a session that has not expired.
PresentsSession(header) ==
    \E t \in DOMAIN sessions : Carries(header, t) /\ sessions[t] >= now

\* A step in which the JSON-file server answers GET /api/visitors.
FileListStep == last' # last /\ last'.op = "file-visitors"

\* C19: the JSON-file server's GET /api/visitors returns stored records only
\* to a request that presents a valid, non-expired session token: the answer
\* to any other request holds no stored record.
C19_FileQueryGate ==
    [][FileListStep /\ ~PresentsSession(last'.auth) => last'.rows = <<>>]_vars

\* The cap of the JSON-file server leaves room for every record accepted.
FileHasRoom ==
    \A limit \in {fileLimit(config.envMaxRecords)} :
        JsNot(limit) \/ limit.val > Len(fileAcked)

\* Every /api/track request started was answered, and answered 201.
AllAcknowledged ==
    /\ handlers = {}
    /\ Cardinality({i \in 1..Len(fileAcked) : fileAcked[i].id <= MaxFileTracks})
           = fileStarted

\* C20: no update of the JSON-file store is lost: once the /api/track
\* requests, however they interleaved, were all answered 201 on a store with
\* room for them, the file holds every one of their records and the records
\* it held before.
C20_NoLostUpdate ==
    AllAcknowledged /\ FileHasRoom => Elems(fileAcked) \subseteq Elems(file)

(* --------------------- claims: ingest acknowledgement ------------------ *)
\* C24: a record acknowledged by /api/track with 201 is in the table when
\* its response is sent: the prune check of a request never deletes the row
\* the same request has just inserted, however the ingests interleave.
C24_AckedIsStored ==
    [][TrackAcked => last'.id \in IdsOf(visits')]_vars

(* ----------------- the client console (src/public/app.js) -------------- *)
\* A browser runs one function at a time: an event handler or the
\* continuation of an await runs up to the next await whose promise is
\* settled from outside the script (crypto.subtle, geolocation).  The
\* functions below are such stretches: from the page state st and the
\* suspended function t to the page state after the stretch and the
\* suspended functions it leaves (next).

\* hashPassword: SHA-256 in hexadecimal (one text per password).
hashPassword(password) == <<"sha256">> \o password

\* encryptData: AES-GCM under a key derived from the passphrase.
encryptData(plaintext, passphrase) == [key |-> passphrase, plaintext |-> plaintext]

\* decryptData: the plaintext as <<text>>, or <<>> (null) when decryption fails.
decryptData(ciphertext, passphrase) ==
    IF ciphertext.key = passphrase THEN <<ciphertext.plaintext>> ELSE <<>>

\* A visit as trackVisit builds it: its id and timestamp.
Visit(id, t) == [id |-> id, ts |-> toISOString(t)]

\* A suspended async function: the function (kind), the await it is at (pc)
\* and its local variables.
Blank ==
    [id |-> 0, kind |-> "none", pc |-> "none", pw |-> <<>>, first |-> FALSE,
     hash |-> <<>>, visit |-> Visit(0, 0), queue |-> <<>>, cipher |-> <<>>,
     key |-> <<>>, visits |-> <<>>]

\* The script's variables, the page and the two storages as one record.
Page ==
    [isUnlocked |-> isUnlocked, currentPassphrase |-> currentPassphrase,
     passphraseHash |-> passphraseHash, analyticsData |-> analyticsData,
     visitQueue |-> visitQueue, tbody |-> tbody, tableLocked |-> tableLocked]

Result(st, next) == [st |-> st, next |-> next]

updateLockState(st, locked) ==
    [st EXCEPT !.isUnlocked = ~locked, !.tableLocked = locked]

handleLock(st) ==
    [updateLockState([st EXCEPT !.currentPassphrase = <<>>], TRUE) EXCEPT !.tbody = <<>>]

\* render: the rows shown for visits (empty search, limit "all").
render(list) == list

\* Faulty cut: one visit more than the cap is kept.
capped_OffByOne(list) ==
    IF Len(list) > VISITS_CAP + 1 THEN SubSeq(list, 1, VISITS_CAP + 1) ELSE list

\* if (visits.length > 1000) visits.length = 1000
capped(list) ==
    IF Len(list) > VISITS_CAP THEN SubSeq(list, 1, VISITS_CAP) ELSE list

\* loadVisits up to its return (done, with []) or to its await of decryptData.
loadVisits(st) ==
    IF st.currentPassphrase = <<>> \/ st.analyticsData = <<>>
    THEN [done |-> TRUE, cipher |-> <<>>, key |-> <<>>]
    ELSE [done |-> FALSE, cipher |-> st.analyticsData, key |-> st.currentPassphrase[1]]

\* What loadVisits returns once decryptData has settled for t: the parsed
\* array, or [] when decryption failed.
loaded(t) ==
    LET decrypted == decryptData(t.cipher[1], t.key)
    IN  IF decrypted = <<>> THEN <<>> ELSE JSONparse(decrypted[1])

\* refreshData after loadVisits returned list.
refreshDone(st, list) ==
    Result(updateLockState([st EXCEPT !.tbody = render(list)], FALSE), {})

\* Faulty refreshData: isUnlocked is not looked at.
refreshData_IgnoresUnlocked(st, t) ==
    IF st.currentPassphrase = <<>> THEN Result(updateLockState(st, TRUE), {})
    ELSE LET l == loadVisits(st) IN
         IF l.done THEN refreshDone(st, <<>>)
         ELSE Result(st, {[t EXCEPT !.pc = "refresh-decrypt",
                                    !.cipher = l.cipher, !.key = l.key]})

\* refreshData up to its return or to the await inside loadVisits.
refreshData(st, t) ==
    IF ~st.isUnlocked \/ st.currentPassphrase = <<>>
    THEN Result(updateLockState(st, TRUE), {})
    ELSE LET l == loadVisits(st) IN
         IF l.done THEN refreshDone(st, <<>>)
         ELSE Result(st, {[t EXCEPT !.pc = "refresh-decrypt",
                                    !.cipher = l.cipher, !.key = l.key]})

\* processQueuedVisits after saveVisits returned, then the submit handler's
\* refreshData.
queueSaved(st, t) == refreshData([st EXCEPT !.visitQueue = <<>>], t)

\* processQueuedVisits after loadVisits returned list: the queue goes in
\* front, the list is cut, and saveVisits runs up to its return (false, no
\* passphrase) or to its await of encryptData.
queueMerge(st, t, list, queue) ==
    IF st.currentPassphrase = <<>> THEN queueSaved(st, t)
    ELSE Result(st, {[t EXCEPT !.pc = "queue-encrypt",
                               !.visits = capped(queue \o list),
                               !.key = st.currentPassphrase[1]]})

\* processQueuedVisits as the submit handler calls it, followed by the
\* handler's refreshData when it returns.
processQueuedVisits(st, t) ==
    IF Len(st.visitQueue) > 0 /\ st.currentPassphrase # <<>>
    THEN LET l == loadVisits(st) IN
         IF l.done THEN queueMerge(st, t, <<>>, st.visitQueue)
         ELSE Result(st, {[t EXCEPT !.pc = "queue-decrypt", !.queue = st.visitQueue,
                                    !.cipher = l.cipher, !.key = l.key]})
    ELSE refreshData(st, t)

\* trackVisit after loadVisits returned list: the visit goes in front, the
\* list is cut, and saveVisits runs up to its return or its await.
trackMerge(st, t, list) ==
    IF st.currentPassphrase = <<>> THEN Result(st, {})
    ELSE Result(st, {[t EXCEPT !.pc = "track-encrypt",
                               !.visits = capped(<<t.visit>> \o list),
                               !.key = st.currentPassphrase[1]]})

\* trackVisit once the position request has settled.
trackVisit(st, t) ==
    IF st.currentPassphrase # <<>> \/ st.passphraseHash # <<>>
    THEN IF st.currentPassphrase = <<>>
         THEN Result([st EXCEPT !.visitQueue = Append(@, t.visit)], {})
         ELSE LET l == loadVisits(st) IN
              IF l.done THEN trackMerge(st, t, <<>>)
              ELSE Result(st, {[t EXCEPT !.pc = "track-decrypt",
                                         !.cipher = l.cipher, !.key = l.key]})
    ELSE Result(st, {})

\* The stretch r is the step: the functions of old are replaced by those r
\* leaves suspended.
Commit(r, old) ==
    /\ isUnlocked' = r.st.isUnlocked
    /\ currentPassphrase' = r.st.currentPassphrase
    /\ passphraseHash' = r.st.passphraseHash
    /\ analyticsData' = r.st.analyticsData
    /\ visitQueue' = r.st.visitQueue
    /\ tbody' = r.st.tbody
    /\ tableLocked' = r.st.tableLocked
    /\ tasks' = (tasks \ old) \cup r.next

\* The page is loaded (again) in the tab: the script starts anew, locks the
\* table and calls trackVisit, which waits for the position; what the old
\* page had suspended is gone, the storages stay.
PageLoad ==
    /\ spawned < MaxSpawned
    /\ spawned' = spawned + 1
    /\ isUnlocked' = FALSE
    /\ tableLocked' = TRUE
    /\ currentPassphrase' = <<>>
    /\ tbody' = <<>>
    /\ tasks' = {[Blank EXCEPT !.id = spawned + 1, !.kind = "track", !.pc = "position",
                               !.visit = Visit(spawned + 1, now)]}
    /\ UNCHANGED <<now, sessionVars, limiterVars, configVars, storeVars, fileVars,
                   storageVars, last>>

\* Faulty submit handler: the length of the passphrase is not checked.
Submit_AnyLength(typed) ==
    LET password == Trim(typed)
        verifies == password # <<>>
    IN  /\ spawned < MaxSpawned
        /\ last' = [NoResp EXCEPT !.op = "submit", !.password = Str(typed),
                                  !.verified = verifies]
        /\ IF verifies
           THEN /\ spawned' = spawned + 1
                /\ tasks' = tasks \cup
                       {[Blank EXCEPT !.id = spawned + 1, !.kind = "submit",
                                      !.pc = "hash", !.pw = password,
                                      !.first = (passphraseHash = <<>>),
                                      !.hash = passphraseHash]}
           ELSE UNCHANGED <<tasks, spawned>>
        /\ UNCHANGED <<now, sessionVars, limiterVars, configVars, storeVars, fileVars,
                       pageVars, storageVars>>

\* The submit handler of authForm up to its return or to the await of
\* hashPassword inside verifyPassphrase (which has read the stored hash).
Submit(typed) ==
    LET password == Trim(typed)
        verifies == password # <<>> /\ Len(password) >= MIN_PASSPHRASE_LENGTH
    IN  /\ spawned < MaxSpawned
        /\ last' = [NoResp EXCEPT !.op = "submit", !.password = Str(typed),
                                  !.verified = verifies]
        /\ IF verifies
           THEN /\ spawned' = spawned + 1
                /\ tasks' = tasks \cup
                       {[Blank EXCEPT !.id = spawned + 1, !.kind = "submit",
                                      !.pc = "hash", !.pw = password,
                                      !.first = (passphraseHash = <<>>),
                                      !.hash = passphraseHash]}
           ELSE UNCHANGED <<tasks, spawned>>
        /\ UNCHANGED <<now, sessionVars, limiterVars, configVars, storeVars, fileVars,
                       pageVars, storageVars>>

\* hashPassword settles inside verifyPassphrase: at first-time setup the hash
\* is stored and the passphrase accepted, else the hash is compared with the
\* stored hash read before; an accepted passphrase becomes currentPassphrase
\* and the handler goes on with processQueuedVisits and refreshData.
HashSettles(t) ==
    /\ t \in tasks
    /\ t.pc = "hash"
    /\ LET hash == hashPassword(t.pw)
           stored == IF t.first THEN [Page EXCEPT !.passphraseHash = <<hash>>] ELSE Page
           valid == t.first \/ hash = t.hash[1]
       IN  IF valid
           THEN Commit(processQueuedVisits([stored EXCEPT !.currentPassphrase = <<t.pw>>],
                                           t), {t})
           ELSE Commit(Result(Page, {}), {t})
    /\ UNCHANGED <<now, sessionVars, limiterVars, configVars, storeVars, fileVars,
                   spawned, last>>

\* decryptData settles inside loadVisits; its caller goes on.
DecryptSettles(t) ==
    /\ t \in tasks
    /\ t.pc \in {"queue-decrypt", "track-decrypt", "refresh-decrypt"}
    /\ Commit(CASE t.pc = "queue-decrypt" -> queueMerge(Page, t, loaded(t), t.queue)
                [] t.pc = "track-decrypt" -> trackMerge(Page, t, loaded(t))
                [] t.pc = "refresh-decrypt" -> refreshDone(Page, loaded(t)),
              {t})
    /\ UNCHANGED <<now, sessionVars, limiterVars, configVars, storeVars, fileVars,
                   spawned, last>>

\* encryptData settles inside saveVisits: the list is stored ("ok"), or the
\* encryption or localStorage.setItem throws and saveVisits returns false;
\* the caller goes on either way.
EncryptSettles(t, outcome) ==
    /\ t \in tasks
    /\ t.pc \in {"queue-encrypt", "track-encrypt"}
    /\ LET st == IF outcome = "ok"
                 THEN [Page EXCEPT !.analyticsData =
                                       <<encryptData(JSONstringify(t.visits), t.key)>>]
                 ELSE Page
       IN  Commit(IF t.pc = "queue-encrypt" THEN queueSaved(st, t) ELSE Result(st, {}), {t})
    /\ UNCHANGED <<now, sessionVars, limiterVars, configVars, storeVars, fileVars,
                   spawned, last>>

\* getCurrentPosition answers or fails (denied, 2 s timeout); trackVisit goes on.
PositionSettles(t) ==
    /\ t \in tasks
    /\ t.pc = "position"
    /\ Commit(trackVisit(Page, t), {t})
    /\ UNCHANGED <<now, sessionVars, limiterVars, configVars, storeVars, fileVars,
                   spawned, last>>

\* A click on lockBtn.
Lock ==
    /\ Commit(Result(handleLock(Page), {}), {})
    /\ UNCHANGED <<now, sessionVars, limiterVars, configVars, storeVars, fileVars,
                   spawned, last>>

\* refreshData as an event handler (refresh, limit, search); the 30 s timer
\* calls it when isUnlocked and currentPassphrase are set.
Refresh ==
    /\ spawned < MaxSpawned
    /\ spawned' = spawned + 1
    /\ Commit(refreshData(Page, [Blank EXCEPT !.id = spawned + 1, !.kind = "refresh"]), {})
    /\ UNCHANGED <<now, sessionVars, limiterVars, configVars, storeVars, fileVars, last>>

\* Passphrases of the operator.
PassA == Rep("a", 12)
PassB == Rep("b", 12)

\* What is typed into the password field.
Typed ==
    {<<>>, <<SP, SP>>, Rep("a", 11), <<SP>> \o Rep("a", 11) \o <<SP>>,
     PassA, <<SP>> \o PassA, PassB}

\* Visits stored by earlier page loads, newest first, up to the cap.
OldVisits == [i \in 1..VISITS_CAP |-> [id |-> 100 + VISITS_CAP + 1 - i, ts |-> toISOString(0)]]

\* The page has just loaded in a new tab: the table is locked and trackVisit
\* waits for the position.  The browser was never set up, or was set up with
\* PassA and holds no visit or the visits of earlier loads.
InitClient ==
    /\ ServerIdle
    /\ geolookup = "ipapi"
    /\ config = DefaultConfig
    /\ visits = {}
    /\ file = <<>>
    /\ fileAcked = <<>>
    /\ isUnlocked = FALSE
    /\ tableLocked = TRUE
    /\ currentPassphrase = <<>>
    /\ tbody = <<>>
    /\ visitQueue = <<>>
    /\ spawned = 1
    /\ tasks = {[Blank EXCEPT !.id = 1, !.kind = "track", !.pc = "position",
                              !.visit = Visit(1, 1)]}
    /\ \/ passphraseHash = <<>> /\ analyticsData = <<>>
       \/ /\ passphraseHash = <<hashPassword(PassA)>>
          /\ analyticsData \in {<<>>, <<encryptData(JSONstringify(OldVisits), PassA)>>}

NextClient ==
    \/ Tick
    \/ PageLoad
    \/ \E typed \in Typed : Submit(typed)
    \/ \E t \in tasks : HashSettles(t)
    \/ \E t \in tasks : DecryptSettles(t)
    \/ \E t \in tasks, outcome \in {"ok", "error"} : EncryptSettles(t, outcome)
    \/ \E t \in tasks : PositionSettles(t)
    \/ Lock
    \/ Refresh

SpecClient == InitClient /\ [][NextClient]_vars

\* The browser settles what the script awaits.
SpecClientLive ==
    /\ InitClient
    /\ [][NextClient]_vars
    /\ \A id \in 1..MaxSpawned :
          WF_vars(\E t \in tasks : t.id = id /\
                     (HashSettles(t) \/ DecryptSettles(t) \/ PositionSettles(t)
                        \/ EncryptSettles(t, "ok")))

(* ------------------------ claims: client console ----------------------- *)
\* The list the storage holds, as loadVisits would return it under the
\* passphrase it was saved with ([] when nothing is stored).
StoredList ==
    IF analyticsData = <<>> THEN <<>> ELSE JSONparse(analyticsData[1].plaintext)

\* C21: data becomes visible once authenticated: after a submission whose
\* passphrase verified (it became currentPassphrase), the console leaves the
\* locked state (isUnlocked is true and the table is not marked locked),
\* unless it is locked or reloaded before.
C21_Unlocks ==
    (currentPassphrase # <<>>) ~>
        ((isUnlocked /\ ~tableLocked) \/ currentPassphrase = <<>>)

\* A step in which the submit handler answers a submission.
SubmitStep == last' # last /\ last'.op = "submit"

\* C22: a passphrase shorter than 12 characters after trimming is never
\* accepted: its submission does not call verifyPassphrase and changes
\* nothing; no verifyPassphrase call holds such a passphrase, no stored hash
\* is written from one and currentPassphrase never is one.
C22_MinLength ==
    [][/\ (SubmitStep /\ Len(Trim(last'.password.chars)) < MIN_PASSPHRASE_LENGTH) =>
              ~last'.verified /\ UNCHANGED clientVars
       /\ \A t \in tasks' : t.kind = "submit" => Len(t.pw) >= MIN_PASSPHRASE_LENGTH
       /\ currentPassphrase' # <<>> =>
              Len(currentPassphrase'[1]) >= MIN_PASSPHRASE_LENGTH
       /\ passphraseHash' # passphraseHash =>
              \E typed \in Typed :
                  /\ Len(Trim(typed)) >= MIN_PASSPHRASE_LENGTH
                  /\ passphraseHash' = <<hashPassword(Trim(typed))>>]_vars

\* At first-time setup, a submission of 13 characters that are 11 after
\* trimming was refused.
C22_Witness ==
    /\ last.op = "submit"
    /\ Len(last.password.chars) > MIN_PASSPHRASE_LENGTH
    /\ Len(Trim(last.password.chars)) < MIN_PASSPHRASE_LENGTH
    /\ ~last.verified
    /\ passphraseHash = <<>>
    /\ currentPassphrase = <<>>

\* C23: the persisted visit list never holds more than the cap (1000) of
\* visits, whatever trackVisit and processQueuedVisits saved and however
\* many queued visits were merged.
C23_ListCapped == Len(StoredList) <= VISITS_CAP

\* A save onto the full list of earlier page loads: the list is still full,
\* a visit of this run is in front and the oldest visit of the earlier
\* loads is gone.
C23_Witness ==
    /\ Len(StoredList) = VISITS_CAP
    /\ StoredList[1].id < 100
    /\ StoredList[VISITS_CAP] = OldVisits[VISITS_CAP - 1]

C26_NewestFirst ==
    \A i \in 1..Len(StoredList) - 1 :
        ~TextLess(StoredList[i].ts, StoredList[i + 1].ts)

\* A step in which processQueuedVisits removes the session queue.
QueueRemoved == visitQueue # <<>> /\ visitQueue' = <<>>

\* A step in which saveVisits writes the list.
ListSaved == analyticsData' # analyticsData

\* C27: a queued visit leaves the session queue only once it is persisted:
\* when processQueuedVisits removes the queue, every visit of the queue is in
\* the stored list unless the list is cut at the cap (so not when the save
\* failed); and no save of trackVisit or processQueuedVisits overwrites
\* visits the other has stored: a save keeps what the list held, unless the
\* list is cut at the cap.
C27_QueueKept ==
    [][/\ QueueRemoved =>
              (Elems(visitQueue) \subseteq Elems(StoredList')
                  \/ Len(StoredList') = VISITS_CAP)
       /\ ListSaved =>
              (Elems(StoredList) \subseteq Elems(StoredList')
                  \/ Len(StoredList') = VISITS_CAP)]_vars

\* C28: the stored passphrase hash is write-once: it is written only when
\* none is stored, and a passphrase becomes currentPassphrase only if its
\* hash is the stored hash.
C28_HashWriteOnce ==
    [][/\ passphraseHash' # passphraseHash => passphraseHash = <<>>
       /\ (currentPassphrase' # currentPassphrase /\ currentPassphrase' # <<>>) =>
              passphraseHash' = <<hashPassword(currentPassphrase'[1])>>]_vars

====
